---- MODULE Spec2Model ----
(***************************************************************************)
(* DrawIO browser: the dual-store indexer and the search handler of        *)
(* src/browser/app.py, and the payload codec of                            *)
(* src/extractor/drawio_tools.py.                                          *)
(* index_all_diagrams() rebuilds a SQLite database (tables diagrams,       *)
(* applications, diagram_applications) and a Whoosh full-text index from   *)
(* the metadata files on disk.  The model follows the function statement   *)
(* by statement: the SQLite transaction is a working copy that becomes     *)
(* visible at conn.commit(), the Whoosh writer is a buffer of documents    *)
(* that is appended to the index at writer.commit().                       *)
(*                                                                         *)
(* Text is a sequence of symbols.  ".png" is one symbol: no other symbol   *)
(* of the alphabet contains a part of it, so str.endswith('.png') and      *)
(* str.replace('.png', '') act on whole symbols.                           *)
(***************************************************************************)
EXTENDS Integers, Sequences, FiniteSets, TLC

\* ------------------------------------------------------------------ bounds
\* Most metadata files in a metadata tree of SourceTrees.
MaxFiles == 2
\* Most calls of index_all_diagrams() in one behaviour.
MaxRebuilds == 3
\* Most characters of a text given to encode_diagram_data().
MaxLen == 3
\* Most <diagram> elements of a .drawio file.
MaxDiagrams == 2
\* Most diagrams that match one query (one more than a page holds, and one more).
MaxHits == 52

\* ---------------------------------------------------------------- text
PNG == ".png"

Lower(c) == IF c = "A" THEN "a" ELSE c

\* str.lower()
LowerText(t) == [i \in 1..Len(t) |-> Lower(t[i])]

\* `needle in hay` of Python strings
Contains(hay, needle) ==
    \E i \in 0..(Len(hay) - Len(needle)) :
        \A j \in 1..Len(needle) : hay[i + j] = needle[j]

\* title.endswith('.png')
EndsWithPng(t) == Len(t) > 0 /\ t[Len(t)] = PNG

\* title.replace('.png', ''): every occurrence is removed
RemovePng(t) == SelectSeq(t, LAMBDA c : c # PNG)

\* line 315: diagram_name
DiagramName(title) == IF EndsWithPng(title) THEN RemovePng(title) ELSE title

\* lines 382-386: ' '.join([diagram_name, page_title, content_text]).lower()
SearchableText(name, ptitle, content) ==
    LowerText(name \o <<" ">> \o ptitle \o <<" ">> \o content)

\* ---------------------------------------------------------------- source data
SpaceKeys == <<"S1", "S2">>

\* One metadata file.  bad names the JSON value that is malformed, if any:
\*   "json"        the file is not valid JSON (json.load raises);
\*   "page_title"  page_title is a number (accepted by SQLite, rejected by
\*                 str.join on line 382);
\*   "displayName" version.by.displayName is a number (accepted by SQLite,
\*                 rejected by writer.add_document on line 395).
MetaFile(title, ptitle, body, bad) ==
    [title |-> title, page_title |-> ptitle, body_text |-> body, bad |-> bad]

FileChoices ==
    { MetaFile(<<"a">>, <<>>, <<>>, "none"),
      MetaFile(<<"a", PNG>>, <<>>, <<>>, "none"),
      MetaFile(<<"b">>, <<"A">>, <<>>, "none"),
      MetaFile(<<"b">>, <<>>, <<>>, "json"),
      MetaFile(<<"b">>, <<>>, <<>>, "page_title"),
      MetaFile(<<"a">>, <<>>, <<>>, "displayName") }

\* The applications file: one name per line.
AppChoices ==
    { << >>, << <<"A">>, <<"a">> >>, << <<"a">>, <<"a">> >> }

\* Placement of the files in the space directories, in listing order.
SpaceLayouts(n) ==
    { s \in [1..n -> 1..Len(SpaceKeys)] :
        /\ n > 0 => s[1] = 1
        /\ \A i \in 1..(n - 1) : s[i + 1] \in {s[i], s[i] + 1} }

SourceTrees ==
    UNION { { [i \in 1..n |-> [space_key |-> SpaceKeys[lay[i]], meta |-> fs[i]]] :
                fs \in [1..n -> FileChoices], lay \in SpaceLayouts(n) } :
            n \in 0..MaxFiles }

VARIABLES
    metaRoot,    \* os.path.exists(metadata_dir)
    metaFiles,   \* the metadata files, in the order the two loops visit them
    appNames,    \* load_applications()
    dbRows,      \* committed rows of table diagrams
    dbApps,      \* committed rows of table applications
    dbLinks,     \* committed rows of table diagram_applications
    dbSeq,       \* committed sqlite_sequence (AUTOINCREMENT counters)
    dbTxn,       \* the open write transaction of the database, if any
    ixDocs,      \* committed documents of the Whoosh index
    ixWriter,    \* the open IndexWriter (it holds the index write lock), if any
    pc,          \* position of each caller in index_all_diagrams
    cursor,      \* index of the metadata file the loop is at
    total,       \* total_indexed
    appMap,      \* app_id_map
    calls,       \* number of calls started
    last,        \* how the most recent call ended
    prev,        \* how the call before it ended
    pre,         \* the committed stores as the most recent call found them
    srch,        \* the request served by search() and its response
    codec,       \* a text on its way through encode_diagram_data / decode_diagram_data
    xtr,         \* a .drawio file given to extract_text_from_drawio and its result
    norm         \* a metadata record and the page title and URL derived from it

\* The variables of the indexer.
ixvars == << metaRoot, metaFiles, appNames, dbRows, dbApps, dbLinks, dbSeq, dbTxn,
             ixDocs, ixWriter, pc, cursor, total, appMap, calls, last, prev, pre >>

vars == << ixvars, srch, codec, xtr, norm >>

\* The state of the other request handlers: index_all_diagrams never touches it.
handlers == << srch, codec, xtr, norm >>
\* What index_all_diagrams only reads.
source == << metaRoot, metaFiles, appNames, handlers >>
history == << calls, pre >>
Stores == [rows |-> dbRows, apps |-> dbApps, links |-> dbLinks, seq |-> dbSeq,
           docs |-> ixDocs]
committedDb == << dbRows, dbApps, dbLinks, dbSeq >>

Callers == {"t1", "t2"}

NoSeq == [diagrams |-> 0, applications |-> 0]
NoTxn == [owner |-> "none", rows |-> {}, apps |-> {}, links |-> {}, seq |-> NoSeq]
NoWriter == [owner |-> "none", docs |-> << >>]
NoMap == << >>
NoCall == [kind |-> "none", at |-> "none", ret |-> 0, rows |-> 0, docs |-> 0]
\* No request has been served; no text is being converted.
NoSearch == [state |-> "none"]
NoCodec == [state |-> "none"]
NoExtract == [state |-> "none"]
NoRecord == [state |-> "none"]


\* ---------------------------------------------------------------- helpers
\* create_app(): init_db() and init_index() have created empty stores.
FreshStores ==
    /\ dbRows = {} /\ dbApps = {} /\ dbLinks = {}
    /\ dbSeq = NoSeq
    /\ dbTxn = NoTxn
    /\ ixDocs = << >>
    /\ ixWriter = NoWriter
    /\ pc = [p \in Callers |-> "idle"]
    /\ cursor = [p \in Callers |-> 0]
    /\ total = [p \in Callers |-> 0]
    /\ appMap = [p \in Callers |-> NoMap]
    /\ calls = 0
    /\ last = NoCall
    /\ prev = NoCall
    /\ pre = [rows |-> {}, apps |-> {}, links |-> {}, seq |-> NoSeq, docs |-> << >>]

\* The same, and no request has been handled.
Fresh ==
    /\ FreshStores
    /\ srch = NoSearch
    /\ codec = NoCodec
    /\ xtr = NoExtract
    /\ norm = NoRecord

Init ==
    /\ metaRoot \in BOOLEAN
    /\ metaFiles \in SourceTrees
    /\ metaRoot = FALSE => metaFiles = << >>
    /\ appNames \in AppChoices
    /\ Fresh

\* get_db(): sqlite3.connect() with the default isolation level opens a
\* transaction before the first DELETE, so the committed rows stay as they
\* are until conn.commit().
CommittedAfterDelete_Autocommit(rows) == {}
CommittedAfterDelete(rows) == rows

\* lines 280-282: INSERT INTO applications for each configured name, in order.
\* applications.name is UNIQUE (binary collation): a repeated name raises
\* IntegrityError.  app_id_map is keyed by the lower-cased name, a later name
\* with the same key replaces the earlier id.
RECURSIVE InsertApplications(_, _, _, _, _)
InsertApplications(names, i, apps, seq, map) ==
    IF i > Len(names)
    THEN [ok |-> TRUE, apps |-> apps, seq |-> seq, map |-> map]
    ELSE IF \E a \in apps : a.name = names[i]
    THEN [ok |-> FALSE, apps |-> apps, seq |-> seq, map |-> map]
    ELSE LET id == seq + 1
             key == LowerText(names[i])
             map2 == [k \in (DOMAIN map) \cup {key} |->
                         IF k = key THEN id ELSE map[k]]
         IN InsertApplications(names, i + 1,
                               apps \cup {[id |-> id, name |-> names[i]]},
                               id, map2)

\* lines 296 and 303: the two for loops move on to the next metadata file; the
\* first file of a space directory is reached through os.listdir.
LoopNext(k) ==
    IF k >= Len(metaFiles) THEN "commit_db"
    ELSE IF metaFiles[k + 1].space_key # metaFiles[k].space_key THEN "listdir"
    ELSE "file"

\* lines 406-408: except Exception: print(...); continue
OnFileError_Break(k) == "commit_db"
OnFileError(k) == LoopNext(k)

\* lines 360-366: content_text (no .drawio file on disk: body_text of the metadata)
ContentText(m) == m.body_text

\* How a call ended, with the sizes of the two stores it left.
Ended(kind, at, ret, rows, docs) ==
    [kind |-> kind, at |-> at, ret |-> ret, rows |-> Cardinality(rows), docs |-> Len(docs)]

\* A call ends without conn.commit()/writer.commit(): conn and writer are
\* locals that nothing closes, so the transaction and the write lock stay
\* open until the objects are finalized.
Abandon(p, res) == IF res.owner = p THEN [res EXCEPT !.owner = "leaked"] ELSE res

\* An exception leaves index_all_diagrams (caught by api_build_index).
Raise(p, at) ==
    /\ pc' = [pc EXCEPT ![p] = "idle"]
    /\ dbTxn' = Abandon(p, dbTxn)
    /\ ixWriter' = Abandon(p, ixWriter)
    /\ prev' = last
    /\ last' = Ended("raised", at, 0, dbRows, ixDocs)
    /\ UNCHANGED << source, committedDb, ixDocs, cursor, total, appMap, history >>

\* ---------------------------------------------------------------- actions
\* lines 263-272: settings, init_db(), init_index(), conn = get_db()
Start(p) ==
    /\ pc[p] = "idle"
    /\ calls < MaxRebuilds
    /\ calls' = calls + 1
    /\ pc' = [pc EXCEPT ![p] = "wipe"]
    /\ cursor' = [cursor EXCEPT ![p] = 0]
    /\ total' = [total EXCEPT ![p] = 0]
    /\ appMap' = [appMap EXCEPT ![p] = NoMap]
    /\ pre' = Stores
    /\ UNCHANGED << source, committedDb, dbTxn, ixDocs, ixWriter, last, prev >>

\* lines 273-275: DELETE leaves sqlite_sequence as it is, so the AUTOINCREMENT
\* counters (line 129) go on from the largest id ever committed.
SequenceAfterDelete_Reset(seq) == NoSeq
SequenceAfterDelete(seq) == seq

\* lines 273-275: the three DELETE statements
Wipe_KeepApplications(p) ==
    /\ pc[p] = "wipe"
    /\ dbTxn.owner = "none"
    /\ dbTxn' = [owner |-> p, rows |-> {}, apps |-> dbApps, links |-> dbLinks,
                 seq |-> SequenceAfterDelete(dbSeq)]
    /\ dbRows' = CommittedAfterDelete(dbRows)
    /\ pc' = [pc EXCEPT ![p] = "apps"]
    /\ UNCHANGED << source, dbApps, dbLinks, dbSeq, ixDocs, ixWriter, cursor, total,
                    appMap, history, last, prev >>

Wipe(p) ==
    /\ pc[p] = "wipe"
    /\ dbTxn.owner = "none"
    /\ dbTxn' = [owner |-> p, rows |-> {}, apps |-> {}, links |-> {},
                 seq |-> SequenceAfterDelete(dbSeq)]
    /\ dbRows' = CommittedAfterDelete(dbRows)
    /\ pc' = [pc EXCEPT ![p] = "apps"]
    /\ UNCHANGED << source, dbApps, dbLinks, dbSeq, ixDocs, ixWriter, cursor, total,
                    appMap, history, last, prev >>

\* line 273 when another connection holds the write lock: database is locked
WipeLocked(p) ==
    /\ pc[p] = "wipe"
    /\ dbTxn.owner # "none"
    /\ Raise(p, "wipe")

\* lines 278-282
LoadApplications(p) ==
    /\ pc[p] = "apps"
    /\ LET r == InsertApplications(appNames, 1, dbTxn.apps, dbTxn.seq.applications, NoMap)
       IN IF r.ok
          THEN /\ dbTxn' = [dbTxn EXCEPT !.apps = r.apps, !.seq.applications = r.seq]
               /\ appMap' = [appMap EXCEPT ![p] = r.map]
               /\ pc' = [pc EXCEPT ![p] = "open"]
               /\ UNCHANGED << source, committedDb, ixDocs, ixWriter, cursor, total,
                               history, last, prev >>
          ELSE Raise(p, "apps")

\* lines 284-285: ix.writer() takes the index write lock
OpenWriter_NoLock(p) ==
    /\ pc[p] = "open"
    /\ ixWriter' = [owner |-> p, docs |-> << >>]
    /\ pc' = [pc EXCEPT ![p] = "scan"]
    /\ UNCHANGED << source, committedDb, dbTxn, ixDocs, cursor, total, appMap,
                    history, last, prev >>
OpenWriter(p) ==
    /\ pc[p] = "open"
    /\ ixWriter.owner = "none"
    /\ ixWriter' = [owner |-> p, docs |-> << >>]
    /\ pc' = [pc EXCEPT ![p] = "scan"]
    /\ UNCHANGED << source, committedDb, dbTxn, ixDocs, cursor, total, appMap,
                    history, last, prev >>

\* line 285 when a writer is open: whoosh raises LockError
OpenWriterLocked(p) ==
    /\ pc[p] = "open"
    /\ ixWriter.owner # "none"
    /\ Raise(p, "open")

\* lines 288-294, metadata directory present
Scan(p) ==
    /\ pc[p] = "scan"
    /\ metaRoot
    /\ cursor' = [cursor EXCEPT ![p] = 1]
    /\ pc' = [pc EXCEPT ![p] = IF Len(metaFiles) = 0 THEN "commit_db" ELSE "listdir"]
    /\ UNCHANGED << source, committedDb, dbTxn, ixDocs, ixWriter, total, appMap,
                    history, last, prev >>

\* lines 288-289: return 0
ReturnNoData(p) ==
    /\ pc[p] = "scan"
    /\ ~metaRoot
    /\ pc' = [pc EXCEPT ![p] = "idle"]
    /\ dbTxn' = Abandon(p, dbTxn)
    /\ ixWriter' = Abandon(p, ixWriter)
    /\ prev' = last
    /\ last' = Ended("early", "scan", 0, dbRows, ixDocs)
    /\ UNCHANGED << source, committedDb, ixDocs, cursor, total, appMap, history >>

\* line 303: os.listdir(metadata_space_dir)
ListDir(p) ==
    /\ pc[p] = "listdir"
    /\ pc' = [pc EXCEPT ![p] = "file"]
    /\ UNCHANGED << source, committedDb, dbTxn, ixDocs, ixWriter, cursor, total,
                    appMap, history, last, prev >>

\* line 303: os.listdir raises OSError (outside the try of line 309)
ListDirFails(p) ==
    /\ pc[p] = "listdir"
    /\ Raise(p, "listdir")

\* lines 304-408: one metadata file, with the except clause
ProcessFile(p) ==
    /\ pc[p] = "file"
    /\ LET k == cursor[p]
           m == metaFiles[k].meta
           name == DiagramName(m.title)
           content == ContentText(m)
           id == dbTxn.seq.diagrams + 1
           row == [id |-> id, space_key |-> metaFiles[k].space_key,
                   diagram_name |-> name, page_title |-> m.page_title,
                   metadata_path |-> k, content_text |-> content]
           text == SearchableText(name, m.page_title, content)
           links == { <<id, appMap[p][key]>> :
                        key \in { x \in DOMAIN appMap[p] : Contains(text, x) } }
           doc == [id |-> id, space_key |-> metaFiles[k].space_key,
                   diagram_name |-> name, page_title |-> m.page_title,
                   content |-> content]
           inserted == m.bad # "json"
           linked == inserted /\ m.bad # "page_title"
           added == linked /\ m.bad # "displayName"
       IN /\ dbTxn' = [dbTxn EXCEPT
                          !.rows = IF inserted THEN @ \cup {row} ELSE @,
                          !.seq.diagrams = IF inserted THEN id ELSE @,
                          !.links = IF linked THEN @ \cup links ELSE @]
          /\ ixWriter' = [ixWriter EXCEPT !.docs = IF added THEN Append(@, doc) ELSE @]
          /\ total' = [total EXCEPT ![p] = IF added THEN @ + 1 ELSE @]
          /\ cursor' = [cursor EXCEPT ![p] = k + 1]
          /\ pc' = [pc EXCEPT ![p] = IF added THEN LoopNext(k) ELSE OnFileError(k)]
    /\ UNCHANGED << source, committedDb, ixDocs, appMap, history, last, prev >>

\* lines 410-411: conn.commit(); conn.close()
CommitDb_WithIndex(p) ==
    /\ pc[p] = "commit_db"
    /\ dbRows' = dbTxn.rows
    /\ dbApps' = dbTxn.apps
    /\ dbLinks' = dbTxn.links
    /\ dbSeq' = dbTxn.seq
    /\ dbTxn' = NoTxn
    /\ ixDocs' = ixDocs \o ixWriter.docs
    /\ ixWriter' = [ixWriter EXCEPT !.docs = << >>]
    /\ pc' = [pc EXCEPT ![p] = "commit_ix"]
    /\ UNCHANGED << source, cursor, total, appMap, history, last, prev >>
CommitDb(p) ==
    /\ pc[p] = "commit_db"
    /\ dbRows' = dbTxn.rows
    /\ dbApps' = dbTxn.apps
    /\ dbLinks' = dbTxn.links
    /\ dbSeq' = dbTxn.seq
    /\ dbTxn' = NoTxn
    /\ pc' = [pc EXCEPT ![p] = "commit_ix"]
    /\ UNCHANGED << source, ixDocs, ixWriter, cursor, total, appMap, history, last, prev >>

\* line 410 raises (I/O error): nothing is committed
CommitDbFails(p) ==
    /\ pc[p] = "commit_db"
    /\ Raise(p, "commit_db")

\* lines 412-414: writer.commit(); return total_indexed
CommitIndex(p) ==
    /\ pc[p] = "commit_ix"
    /\ ixDocs' = ixDocs \o ixWriter.docs
    /\ ixWriter' = NoWriter
    /\ pc' = [pc EXCEPT ![p] = "idle"]
    /\ prev' = last
    /\ last' = Ended("ok", "return", total[p], dbRows, ixDocs \o ixWriter.docs)
    /\ UNCHANGED << source, committedDb, dbTxn, cursor, total, appMap, history >>

\* line 412 raises (I/O error): the segment is not added to the index
CommitIndexFails(p) ==
    /\ pc[p] = "commit_ix"
    /\ Raise(p, "commit_ix")

\* The abandoned sqlite3 connection is finalized: its transaction is rolled back.
FinalizeConn ==
    /\ dbTxn.owner = "leaked"
    /\ dbTxn' = NoTxn
    /\ UNCHANGED << source, committedDb, ixDocs, ixWriter, pc, cursor, total, appMap,
                    history, last, prev >>

\* The abandoned writer is finalized: the write lock is released, the buffered
\* documents are dropped.
FinalizeWriter ==
    /\ ixWriter.owner = "leaked"
    /\ ixWriter' = NoWriter
    /\ UNCHANGED << source, committedDb, dbTxn, ixDocs, pc, cursor, total, appMap,
                    history, last, prev >>

\* Positions between the wipe and the end of the call.
Building == {"apps", "open", "scan", "listdir", "file", "commit_db", "commit_ix"}

\* The process dies inside index_all_diagrams: the open transaction is rolled
\* back by SQLite, the index lock is released, nothing uncommitted survives.
Crash ==
    /\ \E p \in Callers : pc[p] \in Building
    /\ pc' = [p \in Callers |-> "idle"]
    /\ dbTxn' = NoTxn
    /\ ixWriter' = NoWriter
    /\ prev' = last
    /\ last' = Ended("crash", "crash", 0, dbRows, ixDocs)
    /\ UNCHANGED << source, committedDb, ixDocs, cursor, total, appMap, history >>

Rebuild(p) ==
    \/ Start(p)
    \/ Wipe(p)
    \/ WipeLocked(p)
    \/ LoadApplications(p)
    \/ OpenWriter(p)
    \/ OpenWriterLocked(p)
    \/ Scan(p)
    \/ ReturnNoData(p)
    \/ ListDir(p)
    \/ ListDirFails(p)
    \/ ProcessFile(p)
    \/ CommitDb(p)
    \/ CommitDbFails(p)
    \/ CommitIndex(p)
    \/ CommitIndexFails(p)

\* One caller at a time (scripts/index.py, or one request to /api/build-index).
Next ==
    \/ Rebuild("t1")
    \/ FinalizeConn
    \/ FinalizeWriter
    \/ Crash

Spec == Init /\ [][Next]_vars


\* ---------------------------------------------------------------- properties
\* No call is in progress.
Quiet == \A p \in Callers : pc[p] = "idle"

\* The most recent call ran to its return statement on line 414.
AfterRebuild == Quiet /\ last.kind = "ok"

\* The index holds a document keyed by the id of row r.
Indexed(r) == \E i \in DOMAIN ixDocs : ixDocs[i].id = r.id

\* The metadata file at position k is well formed.
GoodFile(k) == metaFiles[k].meta.bad = "none"

\* Every metadata file is well formed.
AllFilesGood == \A k \in 1..Len(metaFiles) : GoodFile(k)

\* C1: after a completed rebuild the number of rows of table diagrams equals
\* the number of documents of the text index (stated for well-formed files).
C1_CountsEqual == (AfterRebuild /\ AllFilesGood) => Cardinality(dbRows) = Len(ixDocs)

\* C2: two rebuilds in succession on the same source data return the same
\* count and leave each store with the same number of entries.
C2_RebuildNotAdditive ==
    (Quiet /\ last.kind = "ok" /\ prev.kind = "ok") =>
        /\ last.ret = prev.ret
        /\ last.rows = prev.rows
        /\ last.docs = prev.docs

\* C3: after a completed rebuild every document of the text index is keyed by
\* the id of a row that is in table diagrams now.
C3_NoStaleDocument ==
    AfterRebuild => \A i \in DOMAIN ixDocs : \E r \in dbRows : r.id = ixDocs[i].id

\* C4: a rebuild that fails before its final commit leaves the committed
\* tables, the AUTOINCREMENT counters and the committed index documents as
\* the call found them.
FailedBeforeCommit ==
    Quiet /\ last.kind = "raised" /\ last.at \in {"wipe", "apps", "open", "listdir"}

C4_FailureKeepsStores == FailedBeforeCommit => Stores = pre

\* C4 witness: the call failed in os.listdir after it had wiped and refilled
\* its transaction, while an earlier generation is committed.
C4_Witness ==
    /\ FailedBeforeCommit
    /\ last.at = "listdir"
    /\ dbRows # {}
    /\ dbTxn.owner = "leaked"
    /\ dbTxn.rows # {}
    /\ dbTxn.rows # dbRows

\* C5: a failure during the final commit of either store leaves no row of a
\* well-formed file in table diagrams without its document in the index.
C5_NoPartialGeneration ==
    (Quiet /\ last.kind = "raised" /\ last.at \in {"commit_db", "commit_ix"}) =>
        \A r \in dbRows : GoodFile(r.metadata_path) => Indexed(r)

\* C6: when the rebuild arrives at its final commit every metadata file has
\* been visited, and every well-formed file has its row and its document,
\* whatever files before it failed.
C6_FileFailureIsolated ==
    \A p \in Callers :
        pc[p] = "commit_db" =>
            /\ cursor[p] = Len(metaFiles) + 1
            /\ \A k \in 1..Len(metaFiles) :
                  GoodFile(k) =>
                      \E r \in dbTxn.rows :
                          /\ r.metadata_path = k
                          /\ \E i \in DOMAIN ixWriter.docs : ixWriter.docs[i].id = r.id

\* C6 witness: the final commit is reached although a file failed before a
\* well-formed one.
C6_Witness ==
    \E p \in Callers :
        /\ pc[p] = "commit_db"
        /\ \E k, j \in 1..Len(metaFiles) : k < j /\ ~GoodFile(k) /\ GoodFile(j)

\* C7: when a rebuild has returned, the transaction and the index writer it
\* acquired are no longer open.
C7_ReleasedOnReturn ==
    (Quiet /\ last.kind \in {"ok", "early"}) =>
        dbTxn.owner = "none" /\ ixWriter.owner = "none"

\* C8: a complete rebuild after a crash leaves both stores with exactly the
\* current source data: one row and one document per metadata file.
C8_RecoveredByRebuild ==
    (AfterRebuild /\ prev.kind = "crash" /\ AllFilesGood) =>
        /\ Cardinality(dbRows) = Len(metaFiles)
        /\ Len(ixDocs) = Len(metaFiles)
        /\ \A k \in 1..Len(metaFiles) :
              \E r \in dbRows : r.metadata_path = k /\ Indexed(r)

\* C9: after a rebuild an application is linked to an indexed record exactly
\* when its lower-cased name occurs in the record's lower-cased name, source
\* title and content text.
C9_LinkIffMatch ==
    AfterRebuild =>
        \A a \in dbApps : \A r \in dbRows :
            Indexed(r) =>
                ( <<r.id, a.id>> \in dbLinks
                  <=> Contains(SearchableText(r.diagram_name, r.page_title, r.content_text),
                               LowerText(a.name)) )

\* No two metadata files of one space carry the same title.
DistinctTitles ==
    \A k, j \in 1..Len(metaFiles) :
        (k # j /\ metaFiles[k].space_key = metaFiles[j].space_key) =>
            metaFiles[k].meta.title # metaFiles[j].meta.title

\* C10: after a rebuild table diagrams holds one row per (space_key,
\* diagram_name), also when the titles of two files of a space differ only by
\* the ".png" suffix.
C10_OneRecordPerName ==
    (AfterRebuild /\ DistinctTitles) =>
        \A r1, r2 \in dbRows :
            (r1.space_key = r2.space_key /\ r1.diagram_name = r2.diagram_name) => r1 = r2

\* ---------------------------------------------------------------- configuration
\* A metadata file in space S1.
InS1(m) == [space_key |-> SpaceKeys[1], meta |-> m]

\* Metadata trees with files whose title is missing or empty, or is just ".png".
ConfigTrees ==
    { << >>,
      << InS1(MetaFile(<< >>, <<"b">>, << >>, "none")) >>,
      << InS1(MetaFile(<<PNG>>, << >>, << >>, "none")) >>,
      << InS1(MetaFile(<<"a">>, <<"b">>, << >>, "none")) >>,
      << InS1(MetaFile(<< >>, <<"b">>, << >>, "none")),
         InS1(MetaFile(<<"a">>, <<"b">>, << >>, "none")) >> }

\* Contents of the applications file over time.
ConfigApps ==
    { << >>, << <<"a">> >>, << <<"b">> >> }

InitConfig ==
    /\ metaRoot \in BOOLEAN
    /\ metaFiles \in ConfigTrees
    /\ metaRoot = FALSE => metaFiles = << >>
    /\ appNames \in ConfigApps
    /\ Fresh

\* The applications file is edited between two rebuilds.  load_applications()
\* reads it once per call (line 278), so an edit during a call acts like an
\* edit before it or after it.
EditApplications ==
    /\ Quiet
    /\ appNames' \in ConfigApps \ {appNames}
    /\ UNCHANGED << metaRoot, metaFiles, handlers, committedDb, dbTxn, ixDocs, ixWriter,
                    pc, cursor, total, appMap, history, last, prev >>

NextConfig ==
    \/ Next
    \/ EditApplications

SpecConfig == InitConfig /\ [][NextConfig]_vars

\* C11: a metadata record whose normalized name is empty is skipped: no stored
\* record and no index document has an empty name or an empty group key.
C11_NoEmptyName ==
    /\ \A r \in dbRows : r.diagram_name # << >> /\ r.space_key # ""
    /\ \A i \in DOMAIN ixDocs : ixDocs[i].diagram_name # << >> /\ ixDocs[i].space_key # ""

\* The names of a list of application names.
NameSet(names) == { names[i] : i \in DOMAIN names }

PerPage == 50
ResultCap == 1000
\* total and total_pages are not passed to the template.
NotPassed == -1

Min(a, b) == IF a < b THEN a ELSE b
Max(a, b) == IF a > b THEN a ELSE b

\* str.strip(): leading and trailing blanks removed
RECURSIVE LStrip(_)
LStrip(t) == IF t # << >> /\ Head(t) = " " THEN LStrip(Tail(t)) ELSE t

RECURSIVE RStrip(_)
RStrip(t) == IF t # << >> /\ t[Len(t)] = " " THEN RStrip(SubSeq(t, 1, Len(t) - 1)) ELSE t

Strip_Identity(t) == t
Strip(t) == RStrip(LStrip(t))

\* The words of a text: the maximal runs of symbols without a blank.
Words(t) ==
    { SubSeq(t, i, j) : <<i, j>> \in
        { w \in (1..Len(t)) \X (1..Len(t)) :
            /\ w[1] <= w[2]
            /\ \A k \in w[1]..w[2] : t[k] # " "
            /\ w[1] = 1 \/ t[w[1] - 1] = " "
            /\ w[2] = Len(t) \/ t[w[2] + 1] = " " } }

\* The analyzer of the schema (lines 195-204) and of the query parser: the
\* lower-cased words.  The symbols stand for words that stemming leaves as
\* they are and that are no stop words.
Analyze(t) == Words(LowerText(t))

\* MultifieldParser([...], group=OrGroup), lines 626-631: a document is a hit
\* when one of its searched fields holds one of the words of the query.
DocMatches(d, query) ==
    Analyze(query) \cap
        (Analyze(d.diagram_name) \cup Analyze(d.page_title) \cup Analyze(d.content)) # {}

\* line 633: searcher.search(q, limit=1000); lines 636-641: result_data.
\* Hits are listed in document order; the order among hits (by score) only
\* decides which page a hit is on.
ResultData(docs, query) ==
    LET hits == SelectSeq(docs, LAMBDA d : DocMatches(d, query))
        capped == SubSeq(hits, 1, Min(ResultCap, Len(hits)))
    IN [i \in 1..Len(capped) |-> [id |-> capped[i].id, space_key |-> capped[i].space_key]]

\* Python's s[start:end]
PySlice(s, start, end) ==
    LET n == Len(s)
        a == IF start < 0 THEN Max(start + n, 0) ELSE Min(start, n)
        b == IF end < 0 THEN Max(end + n, 0) ELSE Min(end, n)
    IN IF a < b THEN SubSeq(s, a + 1, b) ELSE << >>

\* lines 647-652: page_ids
PageIds(result_data, group_by, page) ==
    LET part == IF group_by = "space" THEN result_data
                ELSE PySlice(result_data, (page - 1) * PerPage, (page - 1) * PerPage + PerPage)
    IN [i \in 1..Len(part) |-> part[i].id]

RECURSIVE ById(_)
ById(rows) ==
    IF rows = {} THEN << >>
    ELSE LET r == CHOOSE x \in rows : \A y \in rows : x.id <= y.id
         IN <<r>> \o ById(rows \ {r})

\* lines 657-666: SELECT * FROM diagrams WHERE id IN (...), in rowid order
Fetch(rows, page_ids) ==
    ById({ r \in rows : \E i \in DOMAIN page_ids : page_ids[i] = r.id })

\* line 668
TotalPages(n) == (n + PerPage - 1) \div PerPage

\* line 675: the bucket a record goes to
BucketOf_First(d) == SpaceKeys[1]
BucketOf(d) == d.space_key

\* The position of a space key in the order of strings.
SpaceRank(k) == CHOOSE i \in DOMAIN SpaceKeys : SpaceKeys[i] = k

\* sorted(): the keys in ascending order of their rank, a pair compared
\* component by component
RECURSIVE Sorted(_, _)
Sorted(keys, rank) ==
    IF keys = {} THEN << >>
    ELSE LET k == CHOOSE x \in keys : \A y \in keys :
                      \/ rank[x][1] < rank[y][1]
                      \/ rank[x][1] = rank[y][1] /\ rank[x][2] <= rank[y][2]
         IN <<k>> \o Sorted(keys \ {k}, rank)

\* lines 670-685: grouped_results.  A dict keeps its keys in insertion order
\* and sorted() is stable, so buckets of equal size stay in the order in
\* which their first record appears.
GroupedResults(diagrams, group_by, group_sort) ==
    IF group_by = "space" /\ diagrams # << >>
    THEN LET keys == { BucketOf(diagrams[i]) : i \in DOMAIN diagrams }
             items(k) == SelectSeq(diagrams, LAMBDA d : BucketOf(d) = k)
             first(k) == CHOOSE i \in DOMAIN diagrams :
                            /\ BucketOf(diagrams[i]) = k
                            /\ \A j \in 1..(i - 1) : BucketOf(diagrams[j]) # k
             order == IF group_sort = "alpha"
                      THEN Sorted(keys, [k \in keys |-> <<SpaceRank(k), 0>>])
                      ELSE Sorted(keys, [k \in keys |-> <<0 - Len(items(k)), first(k)>>])
         IN [set |-> TRUE,
             buckets |-> [i \in 1..Len(order) |-> [key |-> order[i], items |-> items(order[i])]]]
    ELSE [set |-> FALSE, buckets |-> << >>]

\* lines 215-225
IndexIsPopulated_NoCount(docs, readable) == readable
IndexIsPopulated(docs, readable) == readable /\ Len(docs) > 0

\* What search() passes to the template, with the request it answers, whether
\* the index could be read, whether the handler opened it, and result_data.
Response(req, readable, opened, query, error, result_data, results, n, pages, grouped) ==
    [state |-> "done", req |-> req, readable |-> readable, opened |-> opened,
     query |-> query, error |-> error, result_data |-> result_data, results |-> results,
     total |-> n, total_pages |-> pages, grouped |-> grouped]

\* lines 607-695 over the committed index documents and the committed rows
SearchHandler(req, readable, docs, rows) ==
    LET query == Strip(req.q)
        none == [set |-> FALSE, buckets |-> << >>]
    IN IF query = << >>
       THEN Response(req, TRUE, FALSE, << >>, "none", << >>, << >>, 0, NotPassed, none)
       ELSE IF ~IndexIsPopulated(docs, readable)
       THEN Response(req, readable, TRUE, query, "not_built", << >>, << >>,
                     NotPassed, NotPassed, none)
       ELSE LET result_data == ResultData(docs, query)
                page_ids == PageIds(result_data, req.group, req.page)
                diagrams == Fetch(rows, page_ids)
            IN Response(req, readable, TRUE, query, "none", result_data, diagrams,
                        Len(result_data), TotalPages(Len(result_data)),
                        GroupedResults(diagrams, req.group, req.sort))

\* The text is empty or all blanks.
Blank(t) == \A i \in DOMAIN t : t[i] = " "

\* Query strings
Queries ==
    { << >>, <<" ">>, <<" ", "A">>, <<"a", " ", "b">>, <<"c">> }

\* Requests to /search.  space is the group filter a caller supplies; search()
\* reads q, page, group and sort only.
Requests ==
    { r \in [q : Queries, page : {1, 2}, group : {"", "space"}, sort : {"count", "alpha"},
             space : {"", "S2"}] :
        /\ Blank(r.q) => r.page = 1 /\ r.group = "" /\ r.space = ""
        /\ r.sort = "alpha" => r.group = "space"
        /\ r.space # "" => r.page = 1 /\ r.sort = "count" }

\* One file in S1, two in S2.
SearchTree ==
    << [space_key |-> "S1", meta |-> MetaFile(<<"a">>, << >>, << >>, "none")],
       [space_key |-> "S2", meta |-> MetaFile(<<"A", PNG>>, << >>, << >>, "none")],
       [space_key |-> "S2", meta |-> MetaFile(<<"x">>, <<"b">>, <<"a", " ", "b">>, "none")] >>

InitSearch ==
    /\ metaRoot \in BOOLEAN
    /\ metaFiles \in {<< >>, SearchTree}
    /\ metaRoot = FALSE => metaFiles = << >>
    /\ appNames = << >>
    /\ Fresh

\* The response with a note of what the indexer was doing when the request
\* was served: how its most recent call ended, or "building" during a call.
Stamp(resp, note) ==
    [f \in (DOMAIN resp) \cup {"during"} |-> IF f = "during" THEN note ELSE resp[f]]

\* One request to /search.  The handler reads the committed index and the
\* committed rows and writes nothing.
Search(req) ==
    /\ srch = NoSearch
    /\ \E readable \in BOOLEAN :
          srch' = Stamp(SearchHandler(req, readable, ixDocs, dbRows),
                        IF Quiet THEN last.kind ELSE "building")
    /\ UNCHANGED << ixvars, codec, xtr, norm >>

\* The response has been sent; the next request can be served.
Sent ==
    /\ srch # NoSearch
    /\ srch' = NoSearch
    /\ UNCHANGED << ixvars, codec, xtr, norm >>

\* Requests are served one after the other, between the steps of the indexer.
NextSearch ==
    \/ Next
    \/ \E req \in Requests : Search(req)
    \/ Sent

SpecSearch == InitSearch /\ [][NextSearch]_vars

\* A request has been answered.
Answered == srch.state = "done"

\* A request has been answered with results and without an error.
Served == Answered /\ srch.query # << >> /\ srch.error = "none"

\* The same, for a request served after a rebuild ran to its end and before
\* the next one began.
ServedAtRest == Served /\ srch.during = "ok"

\* C13: a search whose query text is empty or all blanks returns no results,
\* total 0 and no error, and does not open the index.
C13_BlankQuery ==
    (Answered /\ Blank(srch.req.q)) =>
        /\ srch.results = << >>
        /\ srch.total = 0
        /\ srch.error = "none"
        /\ ~srch.opened

\* An all-blank query answered before any rebuild.
C13_Witness == Answered /\ srch.req.q = <<" ">> /\ calls = 0

Ids(seq) == { seq[i].id : i \in DOMAIN seq }

\* C15: the total reported is the number of hits that remain after the group
\* filter and before pagination, at most the result cap.
C15_TotalIsFilteredCount ==
    ServedAtRest =>
        LET remaining == SelectSeq(srch.result_data,
                LAMBDA h : srch.req.space = "" \/ h.space_key = srch.req.space)
        IN /\ srch.total = Len(remaining)
           /\ srch.total <= ResultCap

\* C16: without grouping, the number of pages is ceil(total / page size) and
\* the page returned holds exactly the records of its slice of the hit list,
\* each once, after any number of rebuilds (stated for requests without a
\* group filter).
C16_PagesReproduceHits ==
    (ServedAtRest /\ srch.req.group # "space" /\ srch.req.space = "") =>
        LET slice == PySlice(srch.result_data, (srch.req.page - 1) * PerPage,
                             srch.req.page * PerPage)
        IN /\ srch.total_pages * PerPage >= srch.total
           /\ (srch.total_pages - 1) * PerPage < srch.total
           /\ Ids(srch.results) = Ids(slice)
           /\ Len(srch.results) = Len(slice)

\* C17: when a group filter is supplied, no record of another group is
\* returned.
C17_FilterApplied ==
    (ServedAtRest /\ srch.req.space # "") =>
        \A i \in DOMAIN srch.results : srch.results[i].space_key = srch.req.space

\* The buckets holding record d, as pairs of bucket and position.
Places(d) ==
    { <<b, i>> \in (DOMAIN srch.grouped.buckets) \X (DOMAIN srch.results) :
        /\ i \in DOMAIN srch.grouped.buckets[b].items
        /\ srch.grouped.buckets[b].items[i] = d }

\* C18: with grouping, every returned record is in exactly one bucket, and
\* the key of a bucket is the group key of every record in it.
C18_OneBucketEach ==
    (Served /\ srch.req.group = "space" /\ srch.results # << >>) =>
        /\ srch.grouped.set
        /\ \A i \in DOMAIN srch.results : Cardinality(Places(srch.results[i])) = 1
        /\ \A b \in DOMAIN srch.grouped.buckets :
              /\ srch.grouped.buckets[b].items # << >>
              /\ \A i \in DOMAIN srch.grouped.buckets[b].items :
                    /\ srch.grouped.buckets[b].items[i].space_key = srch.grouped.buckets[b].key
                    /\ \E j \in DOMAIN srch.results :
                          srch.results[j] = srch.grouped.buckets[b].items[i]

\* A grouped answer with records of both spaces.
C18_Witness ==
    /\ Served /\ srch.req.group = "space"
    /\ Len(srch.grouped.buckets) = 2
    /\ Len(srch.results) = 3

\* C19: with grouping the page number is ignored and the full record of every
\* hit is returned; the buckets are in order of non-increasing size, or of
\* ascending key (stated for requests without a group filter).
C19_GroupedReturnsAllHits ==
    (ServedAtRest /\ srch.req.group = "space" /\ srch.req.space = "") =>
        /\ Ids(srch.results) = Ids(srch.result_data)
        /\ \A b \in 1..(Len(srch.grouped.buckets) - 1) :
              IF srch.req.sort = "alpha"
              THEN SpaceRank(srch.grouped.buckets[b].key)
                     < SpaceRank(srch.grouped.buckets[b + 1].key)
              ELSE Len(srch.grouped.buckets[b].items)
                     >= Len(srch.grouped.buckets[b + 1].items)

\* ---------------------------------------------------------------- payload codec
\* src/extractor/drawio_tools.py.  A text is a sequence of characters, a byte
\* string a sequence of numbers 0..255.
\* The characters of the texts encoded: a letter, digits, the blank, the
\* percent sign, a character of the safe list, one outside it, and U+00E9, a
\* character of two UTF-8 bytes.
Alphabet == {"a", "2", "0", " ", "%", "(", "+", "U+00E9"}

Texts == UNION { [1..n -> Alphabet] : n \in 0..MaxLen }

\* ASCII characters and their codes.
AsciiTable ==
    { <<" ", 32>>, <<"%", 37>>, <<"'", 39>>, <<"(", 40>>, <<"+", 43>>, <<"/", 47>>,
      <<"0", 48>>, <<"1", 49>>, <<"2", 50>>, <<"3", 51>>, <<"4", 52>>,
      <<"5", 53>>, <<"6", 54>>, <<"7", 55>>, <<"8", 56>>, <<"9", 57>>,
      <<"A", 65>>, <<"B", 66>>, <<"C", 67>>, <<"D", 68>>, <<"E", 69>>, <<"F", 70>>,
      <<"<", 60>>, <<"=", 61>>, <<">", 62>>, <<"?", 63>>,
      <<"a", 97>>, <<"b", 98>>, <<"c", 99>>, <<"m", 109>>, <<"v", 118>> }

Ord(c) == (CHOOSE e \in AsciiTable : e[1] = c)[2]

\* Any ASCII character that is not in the table.
OtherAscii == "other"
\* U+FFFD, what bytes.decode(errors='replace') puts for a malformed sequence.
Replacement == "U+FFFD"

Chr(b) ==
    IF \E e \in AsciiTable : e[2] = b
    THEN (CHOOSE e \in AsciiTable : e[2] = b)[1]
    ELSE OtherAscii

IsAscii(c) == c # "U+00E9" /\ c # Replacement

\* The UTF-8 bytes of a character.
Utf8(c) == IF c = "U+00E9" THEN <<195, 169>> ELSE <<Ord(c)>>

RECURSIVE Flatten(_)
Flatten(ss) == IF ss = << >> THEN << >> ELSE Head(ss) \o Flatten(Tail(ss))

HexDigits ==
    <<"0", "1", "2", "3", "4", "5", "6", "7", "8", "9", "A", "B", "C", "D", "E", "F">>

\* The lower-case hex digits, which unquote accepts as well.
LowerHex == <<"a", "b", "c", "d", "e", "f">>

IsHex(c) ==
    \/ \E i \in DOMAIN HexDigits : HexDigits[i] = c
    \/ \E i \in DOMAIN LowerHex : LowerHex[i] = c

HexVal(c) ==
    IF \E i \in DOMAIN LowerHex : LowerHex[i] = c
    THEN 9 + (CHOOSE i \in DOMAIN LowerHex : LowerHex[i] = c)
    ELSE (CHOOSE i \in DOMAIN HexDigits : HexDigits[i] = c) - 1

\* '%XX' of one byte
HexByte(b) == <<"%", HexDigits[(b \div 16) + 1], HexDigits[(b % 16) + 1]>>

\* urllib.parse.quote: letters, digits and _.-~ are never quoted (the letters
\* and digits of AsciiTable)
AlwaysSafe == {"a", "b", "c", "m", "v", "0", "1", "2", "3", "4", "5", "6", "7", "8", "9",
               "A", "B", "C", "D", "E", "F", "_", ".", "-", "~"}
\* line 63: safe="~()*!.'"
Safe == {"~", "(", ")", "*", "!", ".", "'"}

\* quote() of one character: kept, or '%XX' for each of its UTF-8 bytes
QuoteChar_KeepPercent(c) ==
    IF c \in AlwaysSafe \cup Safe \cup {"%"} THEN <<c>>
    ELSE Flatten([i \in DOMAIN Utf8(c) |-> HexByte(Utf8(c)[i])])
QuoteChar(c) ==
    IF c \in AlwaysSafe \cup Safe THEN <<c>>
    ELSE Flatten([i \in DOMAIN Utf8(c) |-> HexByte(Utf8(c)[i])])

\* line 63: quote(data, safe="~()*!.'")
Quote(t) == Flatten([i \in DOMAIN t |-> QuoteChar(t[i])])

\* line 64: data.encode() of the quoted text, which is ASCII
EncodeAscii(t) == [i \in DOMAIN t |-> Ord(t[i])]

\* pako_deflate_raw / pako_inflate_raw and base64: each decoder returns what
\* its encoder was given and fails on anything else.
Deflated(bytes) == [kind |-> "deflate", of |-> bytes]
Base64(bytes) == [kind |-> "base64", of |-> bytes]

Failed == [ok |-> FALSE, val |-> << >>]
Ok(v) == [ok |-> TRUE, val |-> v]
\* An exception that leaves the function called.
Uncaught == [ok |-> FALSE, val |-> << >>, uncaught |-> TRUE]

B64Decode(d) == IF d.kind = "base64" THEN Ok(d.of) ELSE Failed
Inflate(d) == IF d.kind = "deflate" THEN Ok(d.of) ELSE Failed

\* bytes.decode('utf-8', errors='replace')
RECURSIVE Utf8DecodeReplace(_)
Utf8DecodeReplace(bytes) ==
    IF bytes = << >> THEN << >>
    ELSE IF Len(bytes) >= 2 /\ bytes[1] = 195 /\ bytes[2] = 169
    THEN <<"U+00E9">> \o Utf8DecodeReplace(Tail(Tail(bytes)))
    ELSE <<IF bytes[1] >= 128 THEN Replacement ELSE Chr(bytes[1])>>
            \o Utf8DecodeReplace(Tail(bytes))

\* bytes.decode('utf-8'): the text, or no text when a sequence is malformed
\* (the sequences that errors='replace' would replace)
Utf8Decode(bytes) ==
    LET text == Utf8DecodeReplace(bytes)
    IN IF \E i \in DOMAIN text : text[i] = Replacement THEN Failed ELSE Ok(text)

\* urllib.parse.unquote_to_bytes of an ASCII text: '%' and two hex digits
\* give one byte, every other character its code
RECURSIVE UnquoteToBytes(_)
UnquoteToBytes(t) ==
    IF t = << >> THEN << >>
    ELSE IF t[1] = "%" /\ Len(t) >= 3 /\ IsHex(t[2]) /\ IsHex(t[3])
    THEN <<16 * HexVal(t[2]) + HexVal(t[3])>> \o UnquoteToBytes(SubSeq(t, 4, Len(t)))
    ELSE <<Ord(t[1])>> \o UnquoteToBytes(Tail(t))

\* The longest ASCII prefix of a text.
RECURSIVE AsciiPrefix(_)
AsciiPrefix(t) ==
    IF t = << >> \/ ~IsAscii(t[1]) THEN << >> ELSE <<t[1]>> \o AsciiPrefix(Tail(t))

\* urllib.parse.unquote: a text without '%' is returned as it is; otherwise
\* every ASCII run is unquoted to bytes and decoded as UTF-8 with
\* errors='replace', and the other characters are kept
RECURSIVE UnquoteRuns(_)
UnquoteRuns(t) ==
    IF t = << >> THEN << >>
    ELSE IF ~IsAscii(t[1]) THEN <<t[1]>> \o UnquoteRuns(Tail(t))
    ELSE LET run == AsciiPrefix(t)
         IN Utf8DecodeReplace(UnquoteToBytes(run))
              \o UnquoteRuns(SubSeq(t, Len(run) + 1, Len(t)))

Unquote(t) == IF \E i \in DOMAIN t : t[i] = "%" THEN UnquoteRuns(t) ELSE t

\* lines 53-67
encode_diagram_data(data) == Base64(Deflated(EncodeAscii(Quote(data))))

\* lines 33-50: the text, or None (ok = FALSE) when a stage fails
decode_diagram_data_Uncaught(data) ==
    LET raw == B64Decode(data)
        inflated == IF raw.ok THEN Inflate(raw.val) ELSE Failed
        text == IF inflated.ok THEN Utf8Decode(inflated.val) ELSE Failed
    IN IF text.ok THEN Ok(Unquote(text.val))
       ELSE IF raw.ok THEN Uncaught
       ELSE Failed
decode_diagram_data(data) ==
    LET raw == B64Decode(data)
        inflated == IF raw.ok THEN Inflate(raw.val) ELSE Failed
        text == IF inflated.ok THEN Utf8Decode(inflated.val) ELSE Failed
    IN IF text.ok THEN Ok(Unquote(text.val)) ELSE Failed

InitCodec ==
    /\ metaRoot = FALSE
    /\ metaFiles = << >>
    /\ appNames = << >>
    /\ FreshStores
    /\ srch = NoSearch
    /\ xtr = NoExtract
    /\ norm = NoRecord
    /\ codec \in { [state |-> "text", x |-> x, data |-> x] : x \in Texts }

Encode ==
    /\ codec.state = "text"
    /\ codec' = [codec EXCEPT !.state = "encoded", !.data = encode_diagram_data(codec.x)]
    /\ UNCHANGED << ixvars, srch, xtr, norm >>

Decode ==
    /\ codec.state = "encoded"
    /\ codec' = [codec EXCEPT !.state = "decoded", !.data = decode_diagram_data(codec.data)]
    /\ UNCHANGED << ixvars, srch, xtr, norm >>

NextCodec ==
    \/ Encode
    \/ Decode

SpecCodec == InitCodec /\ [][NextCodec]_vars

\* C20: decode_diagram_data(encode_diagram_data(x)) = x for every text x.
C20_RoundTrip == codec.state = "decoded" => codec.data = Ok(codec.x)

\* A text with a literal percent escape, a blank and a two-byte character has
\* gone through both functions.
C20_Witness ==
    /\ codec.state = "decoded"
    /\ \E t \in { <<"%", "2", "0">>, <<"%", " ", "U+00E9">> } : codec.x = t

\* ---------------------------------------------------------------- text extraction
\* extract_text_from_drawio, src/browser/app.py lines 55-105.  The .drawio
\* file is given as etree.parse() returns it; the decoded payload is a text
\* that etree.fromstring() parses.  Payload documents are written with the
\* element names m (mxGraphModel) and c (mxCell) and the attribute v (value).
StartsWith(t, head) == Len(t) >= Len(head) /\ SubSeq(t, 1, Len(head)) = head
Drop(t, n) == SubSeq(t, n + 1, Len(t))

OpenModel == <<"<", "m", ">">>
CloseModel == <<"<", "/", "m", ">">>
EmptyCell == <<"<", "c", "/", ">">>
CellOpen == <<"<", "c", " ", "v", "=", "'">>
CellClose == <<"'", "/", ">">>

\* The position of the first c in t, 0 when there is none.
IndexOf(t, c) ==
    IF \E i \in DOMAIN t : t[i] = c
    THEN CHOOSE i \in DOMAIN t : t[i] = c /\ \A j \in 1..(i - 1) : t[j] # c
    ELSE 0

\* The cells of a model element up to its end tag: the value of each cell
\* ('' for a cell without the attribute), or a failure when the text is not
\* well formed.
RECURSIVE ParseCells(_, _)
ParseCells(t, acc) ==
    IF t = CloseModel THEN Ok(acc)
    ELSE IF StartsWith(t, EmptyCell) THEN ParseCells(Drop(t, Len(EmptyCell)), Append(acc, << >>))
    ELSE IF StartsWith(t, CellOpen)
    THEN LET rest == Drop(t, Len(CellOpen))
             q == IndexOf(rest, "'")
             value == SubSeq(rest, 1, q - 1)
         IN IF q = 0 \/ ~StartsWith(Drop(rest, q - 1), CellClose) \/ IndexOf(value, "<") # 0
            THEN Failed
            ELSE ParseCells(Drop(rest, q - 1 + Len(CellClose)), Append(acc, value))
    ELSE Failed

\* re.sub(r'<[^>]+>', ' ', value): '<', one or more characters other than
\* '>', and '>' become one blank
RECURSIVE StripTags(_)
StripTags(t) ==
    IF t = << >> THEN << >>
    ELSE LET q == IndexOf(Tail(t), ">")
         IN IF t[1] = "<" /\ q >= 2
            THEN <<" ">> \o StripTags(Drop(t, q + 1))
            ELSE <<t[1]>> \o StripTags(Tail(t))

\* re.sub(r'\s+', ' ', text)
RECURSIVE CollapseBlanks(_)
CollapseBlanks(t) ==
    IF t = << >> THEN << >>
    ELSE IF t[1] = " " /\ Len(t) >= 2 /\ t[2] = " " THEN CollapseBlanks(Tail(t))
    ELSE <<t[1]>> \o CollapseBlanks(Tail(t))

\* lines 83-89 and 96-101: clean_text of every value, those that are not empty
Cleaned(values) ==
    SelectSeq([i \in DOMAIN values |-> Strip(CollapseBlanks(StripTags(values[i])))],
              LAMBDA v : v # << >>)

\* What a block of statements gives: it raised, or the texts it appended.
Appended(texts) == [raised |-> FALSE, texts |-> texts]
Raising == [raised |-> TRUE, texts |-> << >>]

\* lines 78-91: try: inner_root = etree.fromstring(...) ... except Exception: pass
InnerParsed_Propagate(r) == IF r.ok THEN Appended(Cleaned(r.val)) ELSE Raising
InnerParsed(r) == IF r.ok THEN Appended(Cleaned(r.val)) ELSE Appended(<< >>)

\* No text content in the <diagram> element.
NoPayload == [kind |-> "none", of |-> << >>]

\* lines 72-91: the texts of the compressed payload; lines 79-82 are
\* etree.fromstring(decoded) and cell.get('value', '') of every mxCell
PayloadTexts(content) ==
    IF content = NoPayload THEN Appended(<< >>)
    ELSE LET decoded == decode_diagram_data(content)
         IN IF decoded = Uncaught THEN Raising
            ELSE IF ~decoded.ok \/ decoded.val = << >> THEN Appended(<< >>)
            ELSE InnerParsed(IF StartsWith(decoded.val, OpenModel)
                             THEN ParseCells(Drop(decoded.val, Len(OpenModel)), << >>)
                             ELSE Failed)

\* lines 67-101: one <diagram> element: its name, the texts of its payload,
\* the values of the cells of its uncompressed mxGraphModel elements
DiagramTexts_OnlyWhenDecoded(d) ==
    LET payload == PayloadTexts(d.text)
    IN IF payload.raised THEN Raising
       ELSE Appended((IF d.name # << >> THEN <<d.name>> ELSE << >>)
                        \o payload.texts
                        \o (IF d.text = NoPayload \/ payload.texts # << >>
                            THEN Cleaned(d.cells) ELSE << >>))
DiagramTexts(d) ==
    LET payload == PayloadTexts(d.text)
    IN IF payload.raised THEN Raising
       ELSE Appended((IF d.name # << >> THEN <<d.name>> ELSE << >>)
                        \o payload.texts \o Cleaned(d.cells))

\* ' '.join(texts)
RECURSIVE Join(_)
Join(texts) ==
    IF texts = << >> THEN << >>
    ELSE IF Len(texts) = 1 THEN texts[1]
    ELSE texts[1] \o <<" ">> \o Join(Tail(texts))

\* lines 59-105: the text returned, and whether an exception left the function
extract_text_from_drawio(file) ==
    LET each == [i \in DOMAIN file.diagrams |-> DiagramTexts(file.diagrams[i])]
        body == IF ~file.parses \/ \E i \in DOMAIN each : each[i].raised
                THEN Raising
                ELSE Appended(Flatten([i \in DOMAIN each |-> each[i].texts]))
    IN IF body.raised THEN [raised |-> FALSE, text |-> << >>]
       ELSE [raised |-> FALSE, text |-> Join(body.texts)]

\* Payloads that decode and parse: a document with one cell whose value
\* cleans to "a b" and one cell without value.
GoodPayloads ==
    { encode_diagram_data(OpenModel \o CellOpen \o <<"a", " ", " ", "b">> \o CellClose
                             \o EmptyCell \o CloseModel) }

\* Payloads for which decode_diagram_data returns None: no base64, no deflate
\* stream, no UTF-8.
FailingPayloads ==
    { [kind |-> "garbage", of |-> << >>],
      Base64([kind |-> "raw", of |-> <<97>>]),
      Base64(Deflated(<<255>>)) }

\* Payloads that decode to a text that is no XML document, or to no text.
UnparsedPayloads ==
    { encode_diagram_data(<<"a">>),
      Base64(Deflated(EncodeAscii(<<"%", "F", "F">>))),
      encode_diagram_data(<< >>) }

\* Files that etree.parse() rejects or accepts; a diagram has a name or none,
\* a payload or none, and uncompressed cells (one with markup in its value,
\* one with an empty value) or none.
DrawioFiles ==
    {[parses |-> FALSE, diagrams |-> << >>]} \cup
    { [parses |-> TRUE, diagrams |-> ds] :
        ds \in UNION { [1..n ->
                    [name : {<< >>, <<"Overview">>},
                     text : {NoPayload} \cup GoodPayloads \cup FailingPayloads
                               \cup UnparsedPayloads,
                     cells : {<< >>, << <<" ", "<", "b", ">", "c">>, << >> >>}]] :
                  n \in 0..MaxDiagrams } }

InitExtract ==
    /\ metaRoot = FALSE
    /\ metaFiles = << >>
    /\ appNames = << >>
    /\ FreshStores
    /\ srch = NoSearch
    /\ codec = NoCodec
    /\ norm = NoRecord
    /\ xtr \in { [state |-> "file", file |-> f, out |-> [raised |-> FALSE, text |-> << >>]] :
                  f \in DrawioFiles }

Extract ==
    /\ xtr.state = "file"
    /\ xtr' = [xtr EXCEPT !.state = "done", !.out = extract_text_from_drawio(xtr.file)]
    /\ UNCHANGED << ixvars, srch, codec, norm >>

SpecExtract == InitExtract /\ [][Extract]_vars

\* C21: a payload for which a stage of decode_diagram_data fails (base64,
\* inflate or UTF-8) gives the one no-result value and no exception; the
\* extractor takes it as no text for this payload and goes on: the names and
\* the decodable payloads of all diagram elements of the file are in the text.
C21_DecodeFailureIsNoText ==
    xtr.state = "done" /\ xtr.file.parses =>
        \A i \in DOMAIN xtr.file.diagrams :
            xtr.file.diagrams[i].text \in FailingPayloads =>
                /\ decode_diagram_data(xtr.file.diagrams[i].text) = Failed
                /\ ~xtr.out.raised
                /\ \A j \in DOMAIN xtr.file.diagrams :
                      /\ Contains(xtr.out.text, xtr.file.diagrams[j].name)
                      /\ xtr.file.diagrams[j].text \in GoodPayloads
                            => Contains(xtr.out.text, <<"a", " ", "b">>)

\* A file whose first payload fails to decode and whose second diagram has a
\* name and a payload that decodes.
C21_Witness ==
    /\ xtr.state = "done"
    /\ Len(xtr.file.diagrams) = 2
    /\ xtr.file.diagrams[1].text \in FailingPayloads
    /\ xtr.file.diagrams[2].name = <<"Overview">>
    /\ xtr.file.diagrams[2].text \in GoodPayloads
    /\ Contains(xtr.out.text, <<"Overview", " ", "a", " ", "b">>)

\* C22: extract_text_from_drawio never raises.  A file that does not parse
\* gives the empty text.  A payload that decodes to a text that is no XML
\* document loses its own values only: the names of all diagrams, the text of
\* every other payload that parses and the values of the uncompressed cells
\* are in the result.
C22_ParseFailuresContained ==
    xtr.state = "done" =>
        /\ ~xtr.out.raised
        /\ ~xtr.file.parses => xtr.out.text = << >>
        /\ \A i \in DOMAIN xtr.file.diagrams :
              xtr.file.diagrams[i].text \in UnparsedPayloads \ {encode_diagram_data(<< >>)} =>
                 \A j \in DOMAIN xtr.file.diagrams :
                    /\ Contains(xtr.out.text, xtr.file.diagrams[j].name)
                    /\ xtr.file.diagrams[j].text \in GoodPayloads
                          => Contains(xtr.out.text, <<"a", " ", "b">>)
                    /\ xtr.file.diagrams[j].cells # << >>
                          => Contains(xtr.out.text, <<"c">>)

\* A file whose first payload is no XML document, with uncompressed cells in
\* the same diagram and a second diagram that has a name and a good payload.
C22_Witness ==
    /\ xtr.state = "done"
    /\ Len(xtr.file.diagrams) = 2
    /\ xtr.file.diagrams[1].text \in UnparsedPayloads \ {encode_diagram_data(<< >>)}
    /\ xtr.file.diagrams[1].cells # << >>
    /\ xtr.file.diagrams[2].name = <<"Overview">>
    /\ xtr.file.diagrams[2].text \in GoodPayloads
    /\ Contains(xtr.out.text, <<"c", " ", "Overview", " ", "a", " ", "b">>)

\* C23: for every diagram element, in document order, the text holds its
\* name when it has one, the cell text of its payload when the payload is a
\* good one, and the text of its uncompressed cells whatever the payload is;
\* the pieces are separated by one blank each and nothing else is in the
\* text.  One diagram named "Overview" with an empty body gives "Overview".
C23_NameAndUncompressedCells ==
    xtr.state = "done" /\ xtr.file.parses =>
        LET ds == xtr.file.diagrams
            pieces == [i \in DOMAIN ds |->
                         (IF ds[i].name # << >> THEN <<ds[i].name>> ELSE << >>)
                            \o (IF ds[i].text \in GoodPayloads THEN << <<"a", " ", "b">> >> ELSE << >>)
                            \o (IF ds[i].cells # << >> THEN << <<"c">> >> ELSE << >>)]
            all == Flatten(pieces)
            spaced == [i \in DOMAIN all |-> IF i = 1 THEN all[i] ELSE <<" ">> \o all[i]]
        IN /\ xtr.out.text = Flatten(spaced)
           /\ ds = << [name |-> <<"Overview">>, text |-> NoPayload, cells |-> << >>] >>
                 => xtr.out.text = <<"Overview">>

\* A diagram whose payload does not decode, with a name and uncompressed
\* cells, followed by a second diagram with a name.
C23_Witness ==
    /\ xtr.state = "done"
    /\ Len(xtr.file.diagrams) = 2
    /\ xtr.file.diagrams[1].name = <<"Overview">>
    /\ xtr.file.diagrams[1].text \in FailingPayloads
    /\ xtr.file.diagrams[1].cells # << >>
    /\ xtr.file.diagrams[2].name = <<"Overview">>
    /\ xtr.file.diagrams[2].text = NoPayload
    /\ xtr.file.diagrams[2].cells = << >>
    /\ xtr.out.text = <<"Overview", " ", "c", " ", "Overview">>

\* ------------------------------------------------------- metadata normalisation
\* index_all_diagrams, src/browser/app.py lines 316-342: the page title and
\* the page URL of one metadata record.  A link is a sequence of symbols: the
\* separators "/", "?" and "+", the path words "display", "pages" and
\* "viewpage.action", and single characters.

\* str.split(sep): the parts between the separators, at least one part
RECURSIVE SplitOn(_, _)
SplitOn(t, sep) ==
    LET i == IndexOf(t, sep)
    IN IF i = 0 THEN <<t>>
       ELSE <<SubSeq(t, 1, i - 1)>> \o SplitOn(Drop(t, i), sep)

\* str.replace('+', ' ')
ReplacePlus(t) == [i \in DOMAIN t |-> IF t[i] = "+" THEN " " ELSE t[i]]

\* line 324: 'viewpage.action'
ViewPage == "viewpage.action"

\* lines 319, 323-329, 337-339: confluence_page_url; line 339 is
\* f'/pages/viewpage.action?pageId={page_id}'
SourceUrl_StripAlways(webui, page_id) ==
    IF webui # << >> THEN SplitOn(webui, "?")[1]
    ELSE IF page_id # << >> THEN <<"/", "pages", "/", ViewPage, "?", "pageId=">> \o page_id
    ELSE << >>
SourceUrl(webui, page_id) ==
    IF webui # << >>
    THEN IF IndexOf(webui, ViewPage) # 0 THEN webui ELSE SplitOn(webui, "?")[1]
    ELSE IF page_id # << >> THEN <<"/", "pages", "/", ViewPage, "?", "pageId=">> \o page_id
    ELSE << >>

\* lines 318, 323, 331-336: page_title; parts[3] is the fourth part of the link
SourceTitle(webui, page_title) ==
    IF webui # << >> /\ page_title = << >> /\ Contains(webui, <<"/", "display", "/">>)
    THEN LET parts == SplitOn(webui, "/")
         IN IF Len(parts) >= 4
            THEN Unquote(ReplacePlus(SplitOn(parts[4], "?")[1]))
            ELSE page_title
    ELSE page_title

\* The records have no link, display links without and with a prefix, with
\* escapes and without a page segment, a page-view link or another link.
InitNormalize ==
    /\ metaRoot = FALSE
    /\ metaFiles = << >>
    /\ appNames = << >>
    /\ FreshStores
    /\ srch = NoSearch
    /\ codec = NoCodec
    /\ xtr = NoExtract
    /\ norm \in
          { [state |-> "meta", meta |-> m, webui |-> << >>, page_id |-> << >>,
             page_title |-> << >>, confluence_page_url |-> << >>] :
            m \in [links_webui :
                      { << >>,
                        <<"/", "display", "/", "A", "/", "a", "+", "b", "?", "v">>,
                        <<"/", "c", "/", "display", "/", "A", "/", "a", "+", "b", "?", "v">>,
                        <<"/", "display", "/", "A", "/", "a", "%", "2", "0", "b">>,
                        <<"/", "display", "/", "A">>,
                        <<"/", "pages", "/", ViewPage, "?", "v">>,
                        <<"/", "m", "/", "a", "?", "v">>,
                        <<"/", "m", "/", "a">> },
                    page_link : {<< >>, <<"/", "pages", "/", ViewPage, "?", "b">>},
                    page_title : {<< >>, <<"b">>},
                    container : {<< >>, <<"/", "c", "/", "7">>, <<"/", "c", "/">>},
                    page_id : {<< >>, <<"9">>}] }

\* lines 316-339 for one record.  webui is _links.webui or, when that is empty,
\* page_link (317); page_id is the last segment of the container or, without a
\* container, the record's page_id (320-321).
Normalize ==
    /\ norm.state = "meta"
    /\ LET webui == IF norm.meta.links_webui # << >> THEN norm.meta.links_webui
                    ELSE norm.meta.page_link
           segments == SplitOn(norm.meta.container, "/")
           page_id == IF norm.meta.container # << >> THEN segments[Len(segments)]
                      ELSE norm.meta.page_id
       IN norm' = [norm EXCEPT
                     !.state = "done",
                     !.webui = webui,
                     !.page_id = page_id,
                     !.page_title = SourceTitle(webui, norm.meta.page_title),
                     !.confluence_page_url = SourceUrl(webui, page_id)]
    /\ UNCHANGED << ixvars, srch, codec, xtr >>

SpecNormalize == InitNormalize /\ [][Normalize]_vars

\* C24: when the record has no direct title and its link contains the display
\* marker, the title is the segment after the marker and the group key, up to
\* the query, with '+' as blank and escapes decoded, whatever precedes the
\* marker in the link.
C24_TitleAfterDisplayMarker ==
    norm.state = "done" /\ norm.meta.page_title = << >>
        /\ Contains(norm.webui, <<"/", "display", "/">>) =>
        LET marker == <<"/", "display", "/">>
            at == CHOOSE i \in 0..Len(norm.webui) :
                     /\ SubSeq(norm.webui, i + 1, i + 3) = marker
                     /\ \A j \in 0..(i - 1) : SubSeq(norm.webui, j + 1, j + 3) # marker
            segments == SplitOn(Drop(norm.webui, at + 3), "/")
            page == IF Len(segments) >= 2 THEN SplitOn(segments[2], "?")[1] ELSE << >>
        IN norm.page_title = Unquote(ReplacePlus(page))

\* C25: the URL is the whole link when the link holds the page-view marker;
\* else the link up to its first '?' when there is a link; else the page-view
\* link made of the id when there is an id; else empty.
C25_UrlCases ==
    norm.state = "done" =>
        LET link == IF norm.meta.links_webui # << >> THEN norm.meta.links_webui
                    ELSE norm.meta.page_link
            url == norm.confluence_page_url
        IN /\ link # << >> /\ (\E i \in DOMAIN link : link[i] = ViewPage) => url = link
           /\ link # << >> /\ (\A i \in DOMAIN link : link[i] # ViewPage) =>
                 /\ url = SubSeq(link, 1, Len(url))
                 /\ \A i \in DOMAIN url : url[i] # "?"
                 /\ Len(url) < Len(link) => link[Len(url) + 1] = "?"
           /\ link = << >> /\ norm.page_id # << >>
                 => url = <<"/", "pages", "/", ViewPage, "?", "pageId=">> \o norm.page_id
           /\ link = << >> /\ norm.page_id = << >> => url = << >>

\* A page-view link kept with its query string.
C25_Witness ==
    /\ norm.state = "done"
    /\ norm.meta.links_webui = <<"/", "pages", "/", ViewPage, "?", "v">>
    /\ norm.confluence_page_url = <<"/", "pages", "/", ViewPage, "?", "v">>

\* ------------------------------------------------------------ concurrent rebuilds
\* Two requests to /api/build-index served by two threads (api_build_index,
\* lines 777-784, calls index_all_diagrams with no lock of its own).
InitConc ==
    /\ metaRoot \in BOOLEAN
    /\ metaFiles \in { << >>,
                       << InS1(MetaFile(<<"a">>, <<"b">>, << >>, "none")),
                          InS1(MetaFile(<<"b">>, << >>, << >>, "none")) >> }
    /\ metaRoot = FALSE => metaFiles = << >>
    /\ appNames = << >>
    /\ Fresh

NextConc ==
    \/ Rebuild("t1")
    \/ Rebuild("t2")
    \/ FinalizeConn
    \/ FinalizeWriter
    \/ Crash

SpecConc == InitConc /\ [][NextConc]_vars

\* Positions of a call between its DELETE statements and conn.commit().
DbSection == {"apps", "open", "scan", "listdir", "file", "commit_db"}
\* Positions of a call between ix.writer() and writer.commit().
WriterSection == {"scan", "listdir", "file", "commit_db", "commit_ix"}

\* C26 as stated: nothing keeps the wipe and insert steps of two calls apart;
\* while one call is between its wipe and its commit, the wipe of the other
\* call can run, and while one call holds its writer, the other can open one.
C26_CallsInterleave ==
    \A p, q \in Callers :
        p # q =>
            /\ pc[q] \in DbSection /\ pc[p] = "wipe" => ENABLED Wipe(p)
            /\ pc[q] \in WriterSection /\ pc[p] = "open" => ENABLED OpenWriter(p)

\* C26 amended: the two calls are serialised by the stores.  While one call is
\* between its wipe and its commit it owns the write transaction, while it is
\* between ix.writer() and writer.commit() it owns the writer, and no step of
\* the other call (one that leaves its position and file cursor as they are)
\* changes the relational store, the transaction, the index or the writer.
C26_StoresSerialize ==
    [][\A p \in Callers :
          /\ pc[p] \in DbSection => dbTxn.owner = p
          /\ pc[p] \in WriterSection => ixWriter.owner = p
          /\ pc[p] \in DbSection /\ pc'[p] = pc[p] /\ cursor'[p] = cursor[p]
                => UNCHANGED << dbTxn, committedDb >>
          /\ pc[p] \in WriterSection /\ pc'[p] = pc[p] /\ cursor'[p] = cursor[p]
                => UNCHANGED << ixWriter, ixDocs >>]_vars

\* The second call was refused at its wipe while the first was inserting.
C26_Witness ==
    /\ pc["t1"] = "file"
    /\ pc["t2"] = "idle"
    /\ last.kind = "raised"
    /\ last.at = "wipe"
    /\ dbTxn.owner = "t1"
    /\ calls = 2

\* ------------------------------------------------------- search during a rebuild
\* C27: a search served while a rebuild is between conn.commit() and
\* writer.commit() reads the index documents of earlier generations and the
\* records of the new one: none of its hits has a record and the page
\* returned is empty.
C27_HitsWithoutRecord ==
    [][pc["t1"] = "commit_ix" /\ srch = NoSearch /\ srch' # NoSearch
          /\ srch'.query # << >> /\ srch'.error = "none" =>
          /\ Ids(srch'.result_data) \cap { r.id : r \in dbRows } = {}
          /\ srch'.results = << >>]_vars

\* The second rebuild has committed its records and not yet its documents; a
\* search finds hits of the first generation and no record for them.
C27_Witness ==
    /\ pc["t1"] = "commit_ix"
    /\ calls = 2
    /\ last.kind = "ok"
    /\ Served
    /\ srch.during = "building"
    /\ dbRows # {}
    /\ srch.total > 0
    /\ srch.results = << >>

\* ------------------------------------------------------------ the returned count
\* C28: whenever a rebuild runs to its return statement, the count returned
\* is the number of rows of table diagrams, and every row has its document:
\* a file that fails after its INSERT leaves no row behind.
C28_CountIsRecords ==
    AfterRebuild =>
        /\ last.ret = Cardinality(dbRows)
        /\ \A r \in dbRows : Indexed(r)

\* ------------------------------------------------------------------ record ids
\* C29: ids are not reused across rebuilds.  The committed AUTOINCREMENT
\* counter never decreases, no committed row has an id above it, and every
\* row a rebuild inserts has an id above the committed counter, that is above
\* every id an earlier committed rebuild assigned.
C29_IdsNotReused ==
    [][/\ \A r \in dbRows : r.id <= dbSeq.diagrams
       /\ dbSeq'.diagrams >= dbSeq.diagrams
       /\ \A r \in dbTxn'.rows \ dbTxn.rows : r.id > dbSeq.diagrams]_vars

\* Two rebuilds ran to their end, each with records; every record of the
\* second has a greater id than every record of the first.
C29_Witness ==
    /\ AfterRebuild
    /\ prev.kind = "ok"
    /\ pre.rows # {}
    /\ dbRows # {}
    /\ \A r \in dbRows : \A o \in pre.rows : r.id > o.id

\* ------------------------------------------------------------------ page numbers
\* search() over an index of n documents that all match the query, after one
\* rebuild of n metadata files; request.args.get('page', 1, type=int) accepts
\* every integer.
\* The stores after index_all_diagrams() has run once over n files titled
\* "a": the rows and the documents are those ProcessFile writes.
InitPages ==
    \E n \in 0..MaxHits :
        /\ metaRoot = TRUE
        /\ metaFiles = [k \in 1..n |-> InS1(MetaFile(<<"a">>, << >>, << >>, "none"))]
        /\ appNames = << >>
        /\ dbRows = { [id |-> k, space_key |-> SpaceKeys[1], diagram_name |-> <<"a">>,
                        page_title |-> << >>, metadata_path |-> k,
                        content_text |-> << >>] : k \in 1..n }
        /\ dbApps = {} /\ dbLinks = {}
        /\ dbSeq = [diagrams |-> n, applications |-> 0]
        /\ dbTxn = NoTxn
        /\ ixDocs = [k \in 1..n |->
                        [id |-> k, space_key |-> SpaceKeys[1], diagram_name |-> <<"a">>,
                         page_title |-> << >>, content |-> << >>]]
        /\ ixWriter = NoWriter
        /\ pc = [p \in Callers |-> "idle"]
        /\ cursor = [p \in Callers |-> IF p = "t1" THEN n + 1 ELSE 0]
        /\ total = [p \in Callers |-> IF p = "t1" THEN n ELSE 0]
        /\ appMap = [p \in Callers |-> NoMap]
        /\ calls = 1
        /\ last = [kind |-> "ok", at |-> "return", ret |-> n, rows |-> n, docs |-> n]
        /\ prev = NoCall
        /\ pre = [rows |-> {}, apps |-> {}, links |-> {}, seq |-> NoSeq, docs |-> << >>]
        /\ srch = NoSearch
        /\ codec = NoCodec
        /\ xtr = NoExtract
        /\ norm = NoRecord

NextPages ==
    \/ \E req \in [q : {<<"a">>}, page : -2..3, group : {"", "space"},
                    sort : {"count"}, space : {""}] : Search(req)
    \/ Sent

SpecPages == InitPages /\ [][NextPages]_vars

\* C30: in ungrouped search a page number below 1 or above the number of
\* pages gives an empty page, and the total is the number of hits.
C30_OutOfRangePageIsEmpty ==
    (Served /\ srch.req.group # "space"
        /\ (srch.req.page < 1 \/ srch.req.page > srch.total_pages)) =>
        /\ srch.results = << >>
        /\ srch.total = Len(srch.result_data)

====
